---- MODULE Spec2Model ----
(***************************************************************************)
(* Model of google/auth/api_key.py: the API key Credentials class and the  *)
(* discovery helper get_api_key_credentials.                               *)
(*                                                                         *)
(* Python values that may be a string or None are records                  *)
(*   [tag |-> "None", val |-> ""]   and   [tag |-> "str", val |-> s].      *)
(* One Credentials instance is shared by NumThreads threads, each of which *)
(* calls refresh, apply and before_request with a header mapping of its    *)
(* own.  The statement of apply, headers[k] = token or self.token, is two  *)
(* steps of a thread: the evaluation of the right-hand side (which reads   *)
(* self.token) and the store into the mapping.                             *)
(***************************************************************************)
EXTENDS Integers, FiniteSets, Sequences, TLC

NumThreads == 2

Threads == 1..NumThreads

None == [tag |-> "None", val |-> ""]

Str(s) == [tag |-> "str", val |-> s]

\* the explicit arguments, tokens, overrides and environment values tried
TokenArgs == {None, Str(""), Str("ABC")}

ExplicitArgs == {None, Str(""), Str("explicit")}

EnvValues == {None, Str(""), Str("envkey")}

OverrideTokens == {None, Str(""), Str("NEW")}

API_KEY == "GOOGLE_API_KEY"

HEADER == "x-goog-api-key"

HeaderKeys == {HEADER, "other"}

OldValues == [k \in HeaderKeys |-> IF k = HEADER THEN Str("OLD") ELSE Str("X")]

\* the header mappings a caller passes in: any subset of the keys present
HeaderMaps == {[k \in D |-> OldValues[k]] : D \in SUBSET HeaderKeys}

EmptyHeaders == [k \in {} |-> None]

Requests == {"req1", "req2"}

Methods == {"GET"}

Urls == {"url1", "url2"}

\* Python truthiness of an Optional[str]
Truthy(v) == v.tag = "str" /\ v.val # ""

\* Python's  a or b
Or(a, b) == IF Truthy(a) THEN a ELSE b

NoInstance == [alive |-> FALSE, token |-> None]

NoFrame == [meth |-> "none", request |-> "", method |-> "", url |-> "", token |-> None]

VARIABLES environ, cred, raised, ret, call, pc, frame, headers, h0, value, exc, transport

vars == <<environ, cred, raised, ret, call, pc, frame, headers, h0, value, exc, transport>>

threadVars == <<pc, frame, headers, h0, value, exc>>

mainVars == <<cred, raised, ret, call>>

----
\* Credentials.__init__(self, token): the outcome of a constructor call
Credentials_init_NoneOnly(token) ==
    IF token = None
    THEN [raised |-> "ValueError", obj |-> NoInstance]
    ELSE [raised |-> "none", obj |-> [alive |-> TRUE, token |-> token]]

Credentials_init(token) ==
    IF ~Truthy(token)
    THEN [raised |-> "ValueError", obj |-> NoInstance]
    ELSE [raised |-> "none", obj |-> [alive |-> TRUE, token |-> token]]

\* Credentials.expired
expired_swapped(c) == TRUE

expired(c) == FALSE

\* Credentials.valid
valid(c) == TRUE

\* Credentials.refresh(self, request): its effect on the instance and on the
\* transport, and the exception it ends with
refresh_abstract(c, tr, request) ==
    [cred |-> c, transport |-> tr, raised |-> "NotImplementedError"]

refresh(c, tr, request) ==
    [cred |-> c, transport |-> tr, raised |-> "none"]

\* the right-hand side of the assignment in apply:  token or self.token
apply_value_swapped(c, token) == Or(c.token, token)

apply_value(c, token) == Or(token, c.token)

\* where the evaluated right-hand side is kept until the store: the
\* evaluation stack of the calling thread
apply_eval_shared(vals, t, v) == [u \in DOMAIN vals |-> v]

apply_eval(vals, t, v) == [vals EXCEPT ![t] = v]

\* dict.__setitem__
setitem_replace(h, k, v) == [x \in {k} |-> v]

setitem(h, k, v) == [x \in (DOMAIN h) \cup {k} |-> IF x = k THEN v ELSE h[x]]

\* the store of apply: headers["x-goog-api-key"] = <value>
apply_store_token(c, h, v) ==
    [cred |-> [c EXCEPT !.token = v], headers |-> setitem(h, HEADER, v)]

apply_store(c, h, v) ==
    [cred |-> c, headers |-> setitem(h, HEADER, v)]

\* the token argument before_request passes on to apply: self.apply(headers)
before_request_token_url(request, method, url) == Str(url)

before_request_token(request, method, url) == None

\* os.environ.get(environment_vars.API_KEY)
environ_get(e, name) == IF name \in DOMAIN e THEN e[name] ELSE None

\* api_key_to_use = api_key_string or os.environ.get(environment_vars.API_KEY)
api_key_to_use_env_first(api_key_string, e) ==
    Or(environ_get(e, API_KEY), api_key_string)

api_key_to_use(api_key_string, e) ==
    Or(api_key_string, environ_get(e, API_KEY))

\* return Credentials(api_key_to_use) if api_key_to_use else None
get_api_key_credentials_unchecked(api_key_string, e) ==
    LET k == api_key_to_use(api_key_string, e)
        r == Credentials_init(k)
    IN  [raised |-> r.raised, obj |-> r.obj,
         ret |-> IF r.raised = "none" THEN "Credentials" ELSE "unset"]

get_api_key_credentials(api_key_string, e) ==
    LET k == api_key_to_use(api_key_string, e)
        r == Credentials_init(k)
    IN  IF Truthy(k)
        THEN [raised |-> r.raised, obj |-> r.obj,
              ret |-> IF r.raised = "none" THEN "Credentials" ELSE "unset"]
        ELSE [raised |-> "none", obj |-> NoInstance, ret |-> "None"]

----
\* the process environment: GOOGLE_API_KEY unset, empty or set
Environments ==
    {[k \in {} |-> None]} \cup {[k \in {API_KEY} |-> v] : v \in EnvValues \ {None}}

Init ==
    /\ environ \in Environments
    /\ cred = NoInstance
    /\ raised = "none"
    /\ ret = "unset"
    /\ call = [op |-> "none", arg |-> None]
    /\ pc = [t \in Threads |-> "idle"]
    /\ frame = [t \in Threads |-> NoFrame]
    /\ headers = [t \in Threads |-> EmptyHeaders]
    /\ h0 = [t \in Threads |-> EmptyHeaders]
    /\ value = [t \in Threads |-> None]
    /\ exc = [t \in Threads |-> "none"]
    /\ transport = [r \in Requests |-> 0]

\* Credentials(token), called directly
Construct(token) ==
    /\ ~cred.alive
    /\ LET r == Credentials_init(token)
       IN  /\ cred' = r.obj
           /\ raised' = r.raised
    /\ ret' = "unset"
    /\ call' = [op |-> "init", arg |-> token]
    /\ UNCHANGED <<environ, threadVars, transport>>

\* get_api_key_credentials(api_key_string)
Discover(api_key_string) ==
    /\ ~cred.alive
    /\ LET r == get_api_key_credentials(api_key_string, environ)
       IN  /\ cred' = r.obj
           /\ raised' = r.raised
           /\ ret' = r.ret
    /\ call' = [op |-> "get", arg |-> api_key_string]
    /\ UNCHANGED <<environ, threadVars, transport>>

\* a thread enters cred.refresh(request)
CallRefresh(t, request) ==
    /\ cred.alive
    /\ pc[t] = "idle"
    /\ pc' = [pc EXCEPT ![t] = "refresh"]
    /\ frame' = [frame EXCEPT ![t] = [NoFrame EXCEPT !.meth = "refresh", !.request = request]]
    /\ UNCHANGED <<environ, mainVars, headers, h0, value, exc, transport>>

\* the body of refresh:  return
RefreshBody(t) ==
    /\ pc[t] = "refresh"
    /\ LET r == refresh(cred, transport, frame[t].request)
       IN  /\ cred' = r.cred
           /\ transport' = r.transport
           /\ exc' = [exc EXCEPT ![t] = r.raised]
    /\ pc' = [pc EXCEPT ![t] = "done"]
    /\ UNCHANGED <<environ, raised, ret, call, frame, headers, h0, value>>

\* a thread enters cred.apply(headers, token) with its own mapping
CallApply(t, h, token) ==
    /\ cred.alive
    /\ pc[t] = "idle"
    /\ pc' = [pc EXCEPT ![t] = "apply_eval"]
    /\ frame' = [frame EXCEPT ![t] = [NoFrame EXCEPT !.meth = "apply", !.token = token]]
    /\ headers' = [headers EXCEPT ![t] = h]
    /\ h0' = [h0 EXCEPT ![t] = h]
    /\ UNCHANGED <<environ, mainVars, value, exc, transport>>

\* a thread enters cred.before_request(request, method, url, headers)
CallBeforeRequest(t, request, method, url, h) ==
    /\ cred.alive
    /\ pc[t] = "idle"
    /\ pc' = [pc EXCEPT ![t] = "before_request"]
    /\ frame' = [frame EXCEPT ![t] = [meth |-> "before_request", request |-> request,
                                      method |-> method, url |-> url, token |-> None]]
    /\ headers' = [headers EXCEPT ![t] = h]
    /\ h0' = [h0 EXCEPT ![t] = h]
    /\ UNCHANGED <<environ, mainVars, value, exc, transport>>

\* the body of before_request:  self.apply(headers).  From here on the frame
\* is that of apply, which holds the mapping and the token argument only;
\* meth keeps the name of the method the thread called.
BeforeRequestBody(t) ==
    /\ pc[t] = "before_request"
    /\ pc' = [pc EXCEPT ![t] = "apply_eval"]
    /\ frame' = [frame EXCEPT ![t] =
                    [NoFrame EXCEPT !.meth = "before_request",
                                    !.token = before_request_token(frame[t].request,
                                                  frame[t].method, frame[t].url)]]
    /\ UNCHANGED <<environ, mainVars, headers, h0, value, exc, transport>>

\* apply evaluates  token or self.token
ApplyEval(t) ==
    /\ pc[t] = "apply_eval"
    /\ value' = apply_eval(value, t, apply_value(cred, frame[t].token))
    /\ pc' = [pc EXCEPT ![t] = "apply_store"]
    /\ UNCHANGED <<environ, mainVars, frame, headers, h0, exc, transport>>

\* apply stores the value under "x-goog-api-key" and returns
ApplyStore(t) ==
    /\ pc[t] = "apply_store"
    /\ LET r == apply_store(cred, headers[t], value[t])
       IN  /\ cred' = r.cred
           /\ headers' = [headers EXCEPT ![t] = r.headers]
    /\ exc' = [exc EXCEPT ![t] = "none"]
    /\ pc' = [pc EXCEPT ![t] = "done"]
    /\ UNCHANGED <<environ, raised, ret, call, frame, h0, value, transport>>

\* the caller takes the result; the frame and its mapping go away
Return(t) ==
    /\ pc[t] = "done"
    /\ pc' = [pc EXCEPT ![t] = "idle"]
    /\ frame' = [frame EXCEPT ![t] = NoFrame]
    /\ headers' = [headers EXCEPT ![t] = EmptyHeaders]
    /\ h0' = [h0 EXCEPT ![t] = EmptyHeaders]
    /\ value' = [value EXCEPT ![t] = None]
    /\ exc' = [exc EXCEPT ![t] = "none"]
    /\ UNCHANGED <<environ, mainVars, transport>>

Next ==
    \/ \E token \in TokenArgs : Construct(token)
    \/ \E k \in ExplicitArgs : Discover(k)
    \/ \E t \in Threads, r \in Requests : CallRefresh(t, r)
    \/ \E t \in Threads : RefreshBody(t)
    \/ \E t \in Threads, h \in HeaderMaps, token \in OverrideTokens : CallApply(t, h, token)
    \/ \E t \in Threads, r \in Requests, m \in Methods, u \in Urls, h \in HeaderMaps :
          CallBeforeRequest(t, r, m, u, h)
    \/ \E t \in Threads : BeforeRequestBody(t)
    \/ \E t \in Threads : ApplyEval(t)
    \/ \E t \in Threads : ApplyStore(t)
    \/ \E t \in Threads : Return(t)

Spec == Init /\ [][Next]_vars

----
\* the value of GOOGLE_API_KEY in the process environment, None when unset
EnvKey == IF API_KEY \in DOMAIN environ THEN environ[API_KEY] ELSE None

\* a thread whose call to apply or before_request has returned
Applied(t) == pc[t] = "done" /\ frame[t].meth \in {"apply", "before_request"}

\* the value a call writes when it runs alone: its non-empty override, else
\* the stored token
Expected(t) == IF Truthy(frame[t].token) THEN frame[t].token ELSE cred.token

\* C1: the constructor raises ValueError for an empty or absent token and no
\* instance comes into existence; for a non-empty token it succeeds and the
\* stored token equals the argument.
C1_Construct ==
    call.op = "init" =>
        IF call.arg = None \/ call.arg = Str("")
        THEN raised = "ValueError" /\ ~cred.alive
        ELSE raised = "none" /\ cred.alive /\ cred.token = call.arg

C1_Witness ==
    call.op = "init" /\ call.arg = Str("") /\ raised = "ValueError" /\ ~cred.alive

\* C2: after apply(headers, token) the entry "x-goog-api-key" is the override
\* when it is given and non-empty, and the stored token otherwise.
C2_ApplyValue ==
    \A t \in Threads :
        pc[t] = "done" /\ frame[t].meth = "apply" =>
            /\ HEADER \in DOMAIN headers[t]
            /\ headers[t][HEADER] =
                  IF frame[t].token \notin {None, Str("")} THEN frame[t].token ELSE cred.token

C2_Witness ==
    \E t \in Threads :
        /\ pc[t] = "done" /\ frame[t].meth = "apply"
        /\ frame[t].token = Str("")
        /\ h0[t] = EmptyHeaders
        /\ headers[t] = [k \in {HEADER} |-> Str("ABC")]

\* C3: apply and before_request write exactly one entry: a value already
\* under "x-goog-api-key" is overwritten, every other key keeps its presence
\* and its value, and nothing is written before the store.
C3_OneHeader ==
    \A t \in Threads :
        /\ pc[t] \in {"before_request", "apply_eval", "apply_store"} => headers[t] = h0[t]
        /\ Applied(t) =>
              /\ DOMAIN headers[t] = (DOMAIN h0[t]) \cup {HEADER}
              /\ \A k \in (DOMAIN h0[t]) \ {HEADER} : headers[t][k] = h0[t][k]
              /\ HEADER \in DOMAIN h0[t] => headers[t][HEADER] # h0[t][HEADER]

C3_Witness ==
    \E t \in Threads :
        /\ pc[t] = "done" /\ frame[t].meth = "apply"
        /\ frame[t].token = Str("NEW")
        /\ h0[t] = [k \in HeaderKeys |-> IF k = HEADER THEN Str("OLD") ELSE Str("X")]
        /\ headers[t] = [k \in HeaderKeys |-> IF k = HEADER THEN Str("NEW") ELSE Str("X")]

\* C4: get_api_key_credentials takes the explicit argument when it is
\* non-empty, whatever GOOGLE_API_KEY holds; else the environment value when
\* that is set and non-empty; else it returns None.
C4_Precedence ==
    call.op = "get" =>
        /\ Truthy(call.arg) =>
              ret = "Credentials" /\ cred.alive /\ cred.token = call.arg
        /\ ~Truthy(call.arg) /\ Truthy(EnvKey) =>
              ret = "Credentials" /\ cred.alive /\ cred.token = EnvKey
        /\ ~Truthy(call.arg) /\ ~Truthy(EnvKey) =>
              ret = "None" /\ ~cred.alive

C4_Witness ==
    /\ call.op = "get" /\ call.arg = Str("explicit")
    /\ EnvKey = Str("envkey")
    /\ ret = "Credentials" /\ cred.token = Str("explicit")

\* C5: get_api_key_credentials never ends in an error: a missing key gives
\* None, and the constructor is reached with a non-empty key only.
C5_NoError ==
    call.op = "get" =>
        /\ raised = "none"
        /\ ret \in {"None", "Credentials"}
        /\ ret = "Credentials" => cred.alive /\ cred.token \notin {None, Str("")}

C5_Witness ==
    /\ call.op = "get" /\ call.arg = Str("")
    /\ EnvKey = Str("")
    /\ ret = "None" /\ raised = "none" /\ ~cred.alive

\* C6: for a constructed credential expired reads false and valid reads true
\* in every state reached by refresh, apply and before_request calls.
C6_ExpiredValid ==
    cred.alive => expired(cred) = FALSE /\ valid(cred) = TRUE

C6_Witness ==
    /\ cred.alive /\ ~expired(cred) /\ valid(cred)
    /\ \E t, u \in Threads :
          /\ t # u
          /\ pc[t] = "done" /\ frame[t].meth = "refresh"
          /\ pc[u] = "done" /\ frame[u].meth = "apply" /\ frame[u].token = Str("NEW")

\* C7: once constructed, the credential's token is never empty and never
\* changes: it stays the value the constructor was given, also across an
\* apply with an override, and a later apply without override writes it.
C7_TokenImmutable ==
    /\ [][cred.alive => cred' = cred]_vars
    /\ [](cred.alive =>
            /\ cred.token \notin {None, Str("")}
            /\ call.op = "init" => cred.token = call.arg
            /\ \A t \in Threads :
                  pc[t] = "done" /\ frame[t].meth = "apply" /\ frame[t].token = None
                      => headers[t][HEADER] = cred.token)

C7_Witness ==
    /\ call.op = "init" /\ cred.alive /\ cred.token = Str("ABC")
    /\ \E t, u \in Threads :
          /\ pc[t] = "done" /\ frame[t].meth = "apply" /\ frame[t].token = Str("NEW")
          /\ headers[t][HEADER] = Str("NEW")
          /\ pc[u] = "done" /\ frame[u].meth = "apply" /\ frame[u].token = None
          /\ headers[u][HEADER] = Str("ABC")

\* C8: refresh(request) is a no-op for every request: it raises nothing and
\* leaves the token, expired, valid, the transport and every header mapping
\* as they were.
C8_RefreshNoOp ==
    [][\A t \in Threads :
          pc[t] = "refresh" /\ pc'[t] = "done" =>
              /\ exc'[t] = "none"
              /\ cred' = cred
              /\ expired(cred') = expired(cred)
              /\ valid(cred') = valid(cred)
              /\ transport' = transport
              /\ headers' = headers]_vars

C8_Witness ==
    \E t \in Threads :
        /\ pc[t] = "done" /\ frame[t].meth = "refresh" /\ frame[t].request = "req2"
        /\ exc[t] = "none" /\ cred.alive

\* C9: before_request(request, method, url, headers) leaves the mapping and
\* the credential as refresh(request) followed by apply(headers) leaves them,
\* for every request, method and url: the header holds the stored token.
C9_BeforeRequest ==
    \A t \in Threads :
        pc[t] = "done" /\ frame[t].meth = "before_request" =>
            \A request \in Requests :
                LET r1 == refresh(cred, transport, request)
                    r2 == apply_store(r1.cred, h0[t], apply_value(r1.cred, None))
                IN  /\ headers[t] = r2.headers
                    /\ cred = r2.cred
                    /\ transport = r1.transport
                    /\ exc[t] = r1.raised
                    /\ headers[t][HEADER] = cred.token

C9_Witness ==
    \E t, u \in Threads :
        /\ t # u
        /\ pc[t] = "done" /\ frame[t].meth = "before_request"
        /\ pc[u] = "before_request" /\ frame[u].url = "url2" /\ frame[u].request = "req2"
        /\ h0[t] = [k \in {HEADER} |-> Str("OLD")]
        /\ headers[t] = [k \in {HEADER} |-> cred.token]

\* C10: when threads call apply and before_request on one credential at the
\* same time, each with a mapping of its own, every call writes the value it
\* would write alone, no step of one thread changes the mapping of another,
\* and the credential is unchanged.
C10_Concurrent ==
    /\ [][/\ cred.alive => cred' = cred
          /\ \A u \in Threads : pc'[u] = pc[u] => headers'[u] = headers[u]]_vars
    /\ [](\A t \in Threads :
            /\ pc[t] = "apply_store" => value[t] = Expected(t)
            /\ Applied(t) =>
                  headers[t] = [k \in (DOMAIN h0[t]) \cup {HEADER} |->
                                   IF k = HEADER THEN Expected(t) ELSE h0[t][k]])

C10_Witness ==
    \E t, u \in Threads :
        /\ t # u
        /\ pc[t] = "apply_store" /\ frame[t].meth = "apply" /\ frame[t].token = Str("NEW")
        /\ value[t] = Str("NEW")
        /\ pc[u] = "done" /\ frame[u].meth = "before_request"
        /\ headers[u][HEADER] = cred.token

====
